---- MODULE Spec2Model ----
(***************************************************************************)
(* TurfCast lawn-watering advisor: the session state LawnState, the        *)
(* postcode index loader, the location resolver, the rainfall fetcher,     *)
(* the watering decision engine and the calculate_watering orchestrator    *)
(* (app/state.py).                                                         *)
(*                                                                         *)
(* Rainfall amounts are held as integers in units of 1/Scale mm.  With     *)
(* Scale = 2 every amount is a multiple of 0.5 mm, on which Python's       *)
(* float sums, products, divisions and round() are exact.                  *)
(* An Optional value is a sequence of length at most one: None is <<>>.    *)
(***************************************************************************)
EXTENDS Integers, Sequences, FiniteSets, TLC

(***************************************************************************)
(* Bounds of the model.                                                    *)
(***************************************************************************)
Scale == 2
MaxRainMm == 32
MaxItems == 2

(***************************************************************************)
(* Static reference tables (state.py:41-124).                              *)
(***************************************************************************)
GRASS_TYPES ==
    {"buffalo", "kikuyu", "couch_bermuda", "zoysia", "qld_blue_couch",
     "tall_fescue", "fine_fescue", "seashore_paspalum"}

SPRINKLER_TYPES ==
    {"Oscillating", "Fixed/Dome", "Rotary/Gear-drive", "Impact", "Dripline"}

Seasons == {"spring", "summer", "autumn", "winter"}

GRASS_TARGETS ==
    [g \in GRASS_TYPES |->
        CASE g = "buffalo" ->
                [spring |-> 20, summer |-> 25, autumn |-> 15, winter |-> 0]
          [] g = "kikuyu" ->
                [spring |-> 20, summer |-> 30, autumn |-> 15, winter |-> 0]
          [] g = "couch_bermuda" ->
                [spring |-> 15, summer |-> 25, autumn |-> 10, winter |-> 0]
          [] g = "zoysia" ->
                [spring |-> 20, summer |-> 25, autumn |-> 15, winter |-> 0]
          [] g = "qld_blue_couch" ->
                [spring |-> 15, summer |-> 25, autumn |-> 15, winter |-> 0]
          [] g = "tall_fescue" ->
                [spring |-> 25, summer |-> 30, autumn |-> 25, winter |-> 10]
          [] g = "fine_fescue" ->
                [spring |-> 20, summer |-> 30, autumn |-> 20, winter |-> 10]
          [] g = "seashore_paspalum" ->
                [spring |-> 20, summer |-> 30, autumn |-> 15, winter |-> 0]]

(* Fault: the rates entered per millimetre instead of per 10 mm.           *)
SPRINKLER_RATES_PerMm ==
    [s \in SPRINKLER_TYPES |->
        CASE s = "Oscillating" -> 2
          [] s = "Fixed/Dome" -> 2
          [] s = "Rotary/Gear-drive" -> 3
          [] s = "Impact" -> 2
          [] s = "Dripline" -> 4]

SPRINKLER_RATES ==
    [s \in SPRINKLER_TYPES |->
        CASE s = "Oscillating" -> 20
          [] s = "Fixed/Dome" -> 20
          [] s = "Rotary/Gear-drive" -> 30
          [] s = "Impact" -> 25
          [] s = "Dripline" -> 40]

winter_exception_grasses == {"buffalo", "kikuyu", "zoysia", "seashore_paspalum"}

(* The fixed texts of the recommendation (state.py:347-378).  A            *)
(* recommendation is the sequence of its sentences.                        *)
SplitSuggestion ==
    "Consider splitting this into two shorter sessions to improve absorption."

(* `"split" in recommendation`: of the sentences the engine can emit only  *)
(* the splitting suggestion contains the word.                             *)
MentionsSplit(recommendation) ==
    \E i \in 1..Len(recommendation) : recommendation[i] = SplitSuggestion

(***************************************************************************)
(* Entries of a precipitation list: a number, JSON null, or a string.      *)
(***************************************************************************)
Num(v) == [k |-> "num", v |-> v]
NoneEntry == [k |-> "null", v |-> 0]
StrEntry == [k |-> "str", v |-> 0]

(* daily_precip[lo:hi] with Python's slice clamping; indices are 0-based. *)
Slice(s, lo, hi) ==
    LET top == IF hi < Len(s) THEN hi ELSE Len(s)
    IN  IF top <= lo THEN <<>> ELSE SubSeq(s, lo + 1, top)

RECURSIVE SumPresent(_)
(* sum(p for p in s if p is not None) over entries that are numbers.       *)
SumPresent(s) ==
    IF s = <<>> THEN 0
    ELSE (IF Head(s).k = "num" THEN Head(s).v ELSE 0) + SumPresent(Tail(s))

(* sum() raises TypeError when a string entry is among the summed ones.    *)
SumRaises(s) == \E i \in 1..Len(s) : s[i].k = "str"

(* Fault: ties rounded up.                                                 *)
RoundHalfUp(n, d) == (2 * n + d) \div (2 * d)

(* Python's round(): the integer nearest to n/d, ties to the even one.     *)
RoundHalfEven(n, d) ==
    LET q == n \div d
        r == n % d
    IN  IF 2 * r < d THEN q
        ELSE IF 2 * r > d THEN q + 1
        ELSE IF q % 2 = 0 THEN q ELSE q + 1

(* round(x, 1) of an amount held in 1/Scale mm; the value is in tenths.    *)
Round1(u) == RoundHalfEven(u * 10, Scale)

get_season(month) ==
    IF month \in {12, 1, 2} THEN "summer"
    ELSE IF month \in {3, 4, 5} THEN "autumn"
    ELSE IF month \in {6, 7, 8} THEN "winter"
    ELSE "spring"

(* str.title() on the four season names.                                   *)
Title(season) ==
    CASE season = "summer" -> "Summer"
      [] season = "autumn" -> "Autumn"
      [] season = "winter" -> "Winter"
      [] season = "spring" -> "Spring"

(* today.strftime: the "%b" part of the date, the only part modelled.      *)
MonthAbbr(month) ==
    <<"Jan", "Feb", "Mar", "Apr", "May", "Jun",
      "Jul", "Aug", "Sep", "Oct", "Nov", "Dec">>[month]

(* GRASS_TARGETS.get(grass, {}).get(season, 0), in 1/Scale mm.             *)
TargetMm(grass, season) ==
    IF grass \in GRASS_TYPES THEN GRASS_TARGETS[grass][season] * Scale ELSE 0

(* SPRINKLER_RATES.get(sprinkler, 20)                                      *)
MinutesPer10mm(sprinkler) ==
    IF sprinkler \in SPRINKLER_TYPES THEN SPRINKLER_RATES[sprinkler] ELSE 20

(* Fault: the general case without the floor at 0.                         *)
DeficitMmSigned(grass, season, daily_precip) ==
    LET target_mm == TargetMm(grass, season)
        observed_mm == SumPresent(Slice(daily_precip, 0, 7))
    IN  IF grass \in winter_exception_grasses /\ season = "winter"
        THEN IF Len(daily_precip) >= 14
             THEN IF SumPresent(Slice(daily_precip, 0, 14)) < 10 * Scale
                  THEN 5 * Scale ELSE 0
             ELSE IF observed_mm < 5 * Scale THEN 5 * Scale ELSE 0
        ELSE target_mm - observed_mm

(* state.py:323-341                                                        *)
DeficitMm(grass, season, daily_precip) ==
    LET target_mm == TargetMm(grass, season)
        observed_mm == SumPresent(Slice(daily_precip, 0, 7))
    IN  IF grass \in winter_exception_grasses /\ season = "winter"
        THEN IF Len(daily_precip) >= 14
             THEN IF SumPresent(Slice(daily_precip, 0, 14)) < 10 * Scale
                  THEN 5 * Scale ELSE 0
             ELSE IF observed_mm < 5 * Scale THEN 5 * Scale ELSE 0
        ELSE IF grass = "fine_fescue" /\ season = "winter"
        THEN IF target_mm - observed_mm > 0 THEN target_mm - observed_mm ELSE 0
        ELSE IF target_mm - observed_mm > 0 THEN target_mm - observed_mm ELSE 0

(* int(5 * round(deficit_mm * (minutes_per_10mm / 10.0) / 5))              *)
RawMinutes(deficit_mm, sprinkler) ==
    5 * RoundHalfEven(deficit_mm * MinutesPer10mm(sprinkler), Scale * 10 * 5)

(* Fault: the halved minutes rounded to a multiple of 5 with ties up.      *)
HalvedMinutesHalfUp(watering_minutes) == 5 * ((watering_minutes + 5) \div 10)

(* Fault: the halved minutes truncated instead of rounded to a multiple   *)
(* of 5.                                                                   *)
HalvedMinutesTruncated(watering_minutes) == watering_minutes \div 2

(* int(5 * round(watering_minutes / 2 / 5))                                *)
HalvedMinutes(watering_minutes) == 5 * RoundHalfEven(watering_minutes, 2 * 5)

(* Fault: the forecast threshold of rule a taken as strict.                *)
HeavyRainStrict(target_mm, observed_mm, forecast_48h_mm) ==
    \/ forecast_48h_mm > 25 * Scale
    \/ (target_mm > 0 /\ observed_mm >= target_mm)

(* The condition of state.py:346.                                          *)
HeavyRain(target_mm, observed_mm, forecast_48h_mm) ==
    \/ forecast_48h_mm >= 25 * Scale
    \/ (target_mm > 0 /\ observed_mm >= target_mm)

(* Fault: rule b without its near-target clause.                           *)
LightRainForecastOnly(target_mm, observed_mm, forecast_48h_mm) ==
    5 * Scale <= forecast_48h_mm /\ forecast_48h_mm < 25 * Scale

(* The condition of state.py:353-355.                                      *)
LightRain(target_mm, observed_mm, forecast_48h_mm) ==
    LET diff == target_mm - observed_mm
        absdiff == IF diff < 0 THEN -diff ELSE diff
    IN  \/ (5 * Scale <= forecast_48h_mm /\ forecast_48h_mm < 25 * Scale)
        \/ (target_mm > 0 /\ absdiff <= 3 * Scale)

(* Fault: rule c from a deficit of exactly 15 mm.                          *)
VeryDryFromFifteen(deficit_mm, forecast_48h_mm) ==
    deficit_mm >= 15 * Scale /\ forecast_48h_mm < 5 * Scale

(* The condition of state.py:360.                                          *)
VeryDry(deficit_mm, forecast_48h_mm) ==
    deficit_mm > 15 * Scale /\ forecast_48h_mm < 5 * Scale

(* The classification chain, state.py:346-376.                             *)
Classify(target_mm, observed_mm, deficit_mm, forecast_48h_mm, minutes) ==
        IF HeavyRain(target_mm, observed_mm, forecast_48h_mm)
        THEN [emoji |-> "cloud_with_rain",
              status_text |-> "Heavy Rain - Skip",
              recommendation |->
                <<"Nature's got it covered. No watering needed this week.">>,
              watering_minutes |-> 0]
        ELSE IF LightRain(target_mm, observed_mm, forecast_48h_mm)
        THEN [emoji |-> "sun_behind_rain_cloud",
              status_text |-> "Light Rain - Monitor",
              recommendation |->
                <<"Monitor your lawn. Watering may not be necessary.">>,
              watering_minutes |-> HalvedMinutes(minutes)]
        ELSE IF VeryDry(deficit_mm, forecast_48h_mm)
        THEN [emoji |-> "fire",
              status_text |-> "Very Dry - Deep Water",
              recommendation |->
                <<"A deep watering is needed. Water for "
                    \o ToString(minutes) \o " minutes.">>,
              watering_minutes |-> minutes]
        ELSE IF deficit_mm > 0
        THEN [emoji |-> "sun",
              status_text |-> "Dry - Water Needed",
              recommendation |->
                <<"Your lawn is thirsty. Water for "
                    \o ToString(minutes) \o " minutes.">>,
              watering_minutes |-> minutes]
        ELSE [emoji |-> "check_mark",
              status_text |-> "All Good",
              recommendation |->
                <<"Your lawn has received enough water recently.">>,
              watering_minutes |-> 0]

(* Fault: the suggestion appended from 45 minutes on.                      *)
WithSplitHintFrom45(c) ==
    IF c.watering_minutes >= 45 /\ ~MentionsSplit(c.recommendation)
    THEN [c EXCEPT !.recommendation = Append(@, SplitSuggestion)]
    ELSE c

(* state.py:377-378                                                        *)
WithSplitHint(c) ==
    IF c.watering_minutes > 45 /\ ~MentionsSplit(c.recommendation)
    THEN [c EXCEPT !.recommendation = Append(@, SplitSuggestion)]
    ELSE c

(* The CalculationResult dictionary stored at state.py:379-390.            *)
Recommendation(grass, sprinkler, month, daily_precip) ==
    LET season == get_season(month)
        target_mm == TargetMm(grass, season)
        observed_mm == SumPresent(Slice(daily_precip, 0, 7))
        deficit_mm == DeficitMm(grass, season, daily_precip)
        forecast_48h_mm == SumPresent(Slice(daily_precip, 7, 9))
        c == WithSplitHint(
                Classify(target_mm, observed_mm, deficit_mm, forecast_48h_mm,
                         RawMinutes(deficit_mm, sprinkler)))
    IN  [week_ending |-> MonthAbbr(month),
         season |-> Title(season),
         target_mm |-> Round1(target_mm),
         observed_mm |-> Round1(observed_mm),
         deficit_mm |-> Round1(deficit_mm),
         forecast_48h_mm |-> Round1(forecast_48h_mm),
         watering_minutes |-> c.watering_minutes,
         emoji |-> c.emoji,
         status_text |-> c.status_text,
         recommendation |-> c.recommendation]

(***************************************************************************)
(* JSON payloads of the weather provider (state.py:10-19, 288, 317).       *)
(* json is "null" (falsy None), "empty" (a falsy {}), "list" (a truthy     *)
(* non-object) or "object"; daily is "absent", "null" or "object";         *)
(* precipitation_sum is None (key absent) or the list.                     *)
(***************************************************************************)
None == <<>>
Some(x) == <<x>>

JsonNull == [json |-> "null", daily |-> "absent", precipitation_sum |-> None]
JsonEmpty == [json |-> "empty", daily |-> "absent", precipitation_sum |-> None]
JsonList == [json |-> "list", daily |-> "absent", precipitation_sum |-> None]
NoDaily == [json |-> "object", daily |-> "absent", precipitation_sum |-> None]
NullDaily == [json |-> "object", daily |-> "null", precipitation_sum |-> None]
NoPrecip == [json |-> "object", daily |-> "object", precipitation_sum |-> None]
Daily(series) ==
    [json |-> "object", daily |-> "object", precipitation_sum |-> Some(series)]

(* `not weather_data`                                                      *)
Falsy(payload) == payload.json \in {"null", "empty"}

(* weather_data.get("daily", {}).get("precipitation_sum", []) raises       *)
(* AttributeError on a non-object payload or a null "daily".               *)
GetRaises(payload) == payload.json = "list" \/ payload.daily = "null"

DailyPrecip(payload) ==
    IF payload.precipitation_sum = None THEN <<>>
    ELSE payload.precipitation_sum[1]

(* Fault: the length guard off by one.                                     *)
TooShortOffByOne(daily_precip) == daily_precip = <<>> \/ Len(daily_precip) < 8

(* The guard of state.py:318.                                              *)
TooShort(daily_precip) == daily_precip = <<>> \/ Len(daily_precip) < 9

(* The sums of state.py:323, 332 and 342 raise TypeError on a string.      *)
SumsRaise(grass, month, daily_precip) ==
    \/ SumRaises(Slice(daily_precip, 0, 9))
    \/ /\ grass \in winter_exception_grasses
       /\ get_season(month) = "winter"
       /\ Len(daily_precip) >= 14
       /\ SumRaises(Slice(daily_precip, 0, 14))

(***************************************************************************)
(* Postcodes and the postcode dataset (state.py:147-149, 162-186).         *)
(* A postcode is the sequence of its characters.  A JSON field of an item  *)
(* is Absent (no such key), NoneEntry (null) or Num(v).                    *)
(***************************************************************************)
Digits == {"0", "1", "2", "3", "4", "5", "6", "7", "8", "9"}

Absent == [k |-> "absent", v |-> 0]

Item(pc, st, lat, latp, long, longp, loc) ==
    [postcode |-> pc, state |-> st, lat |-> lat, Lat_precise |-> latp,
     long |-> long, Long_precise |-> longp, locality |-> loc]

(* item.get(key, default) for a field that may be absent.                  *)
GetOr(field, default) == IF field.k = "absent" THEN default ELSE field

(* float(x) raises TypeError on None.                                      *)
FloatRaises(field) == field.k # "num"

(* The region test of state.py:167-174; float(item.get("lat", 0)) is only  *)
(* evaluated for a WA item.                                                *)
InRegion(item) ==
    \/ item.state = "VIC"
    \/ (item.state = "WA" /\ GetOr(item.lat, Num(0)).v < -20)
    \/ item.state = "NT"

RegionRaises(item) ==
    item.state = "WA" /\ FloatRaises(GetOr(item.lat, Num(0)))

Record(item) ==
    [latitude |-> GetOr(item.Lat_precise, GetOr(item.lat, NoneEntry)),
     longitude |-> GetOr(item.Long_precise, GetOr(item.long, NoneEntry)),
     locality |-> item.locality[1],
     state |-> item.state]

(* Whether the loop of state.py:164-184 adds `item` to the dictionary.     *)
Kept(item, processed_postcodes) ==
    /\ item.postcode # <<>>
    /\ item.postcode \notin DOMAIN processed_postcodes
    /\ InRegion(item)

(* Whether processing `item` raises: float() of a null latitude, or the    *)
(* KeyError of item["locality"].                                           *)
ItemRaises(item, processed_postcodes) ==
    /\ item.postcode # <<>>
    /\ item.postcode \notin DOMAIN processed_postcodes
    /\ \/ RegionRaises(item)
       \/ (InRegion(item) /\ item.locality = None)

RECURSIVE ProcessFrom(_, _)
(* The dictionary built from the items of `items` on top of `acc`.         *)
ProcessFrom(items, acc) ==
    IF items = <<>> THEN acc
    ELSE LET item == Head(items)
         IN  ProcessFrom(Tail(items),
                IF Kept(item, acc) /\ ~ItemRaises(item, acc)
                THEN [p \in DOMAIN acc \cup {item.postcode} |->
                        IF p = item.postcode THEN Record(item) ELSE acc[p]]
                ELSE acc)

RECURSIVE ProcessRaises(_, _)
ProcessRaises(items, acc) ==
    IF items = <<>> THEN FALSE
    ELSE \/ ItemRaises(Head(items), acc)
         \/ ProcessRaises(Tail(items), ProcessFrom(<<Head(items)>>, acc))

processed_postcodes(all_postcodes_list) == ProcessFrom(all_postcodes_list, <<>>)

(***************************************************************************)
(* The remote dataset and the cache file POSTCODE_DATA_PATH.               *)
(***************************************************************************)
P3000 == <<"3", "0", "0", "0">>
P0800 == <<"0", "8", "0", "0">>
P2000 == <<"2", "0", "0", "0">>
P3999 == <<"3", "9", "9", "9">>
P6000 == <<"6", "0", "0", "0">>
P6743 == <<"6", "7", "4", "3">>
P3644 == <<"3", "6", "4", "4">>
P0872 == <<"0", "8", "7", "2">>

DatasetAU ==
    << Item(P3000, "VIC", Num(-37), Num(-38), Num(144), Num(145),
            Some("Melbourne")),
       Item(P3000, "VIC", Num(-36), Absent, Num(143), Absent,
            Some("East Melbourne")),
       Item(P2000, "NSW", Num(-33), Absent, Num(151), Absent, Some("Sydney")),
       Item(P0800, "NT", Num(-12), Absent, Num(130), Absent, Some("Darwin")),
       Item(<<>>, "VIC", Num(-37), Absent, Num(144), Absent, Some("Nowhere")),
       Item(P6000, "WA", Num(-31), Absent, Num(115), Absent, Some("Perth")),
       Item(P6743, "WA", Num(-15), Absent, Num(128), Absent,
            Some("Kununurra")),
       Item(P3999, "VIC", NoneEntry, Absent, NoneEntry, Absent,
            Some("Unsurveyed")) >>

DatasetOutside ==
    << Item(P2000, "NSW", Num(-33), Absent, Num(151), Absent, Some("Sydney")) >>

DatasetBroken ==
    << Item(P3000, "VIC", Num(-37), Absent, Num(144), Absent, None) >>

(* What the download of state.py:157-162 can give: a failure of the        *)
(* request (network, status, JSON) or one of the datasets.                 *)
RemoteOutcomes ==
    {[ok |-> FALSE, items |-> <<>>]}
        \cup {[ok |-> TRUE, items |-> d] :
                d \in {DatasetAU, DatasetOutside, DatasetBroken}}

FileAbsent == [status |-> "absent", data |-> <<>>]
FileCorrupt == [status |-> "corrupt", data |-> <<>>]
FileOk(data) == [status |-> "ok", data |-> data]

(***************************************************************************)
(* on_load (state.py:151-212) as a function of the state it reads, the     *)
(* outcome `remote` of the download and whether the cache file is gone     *)
(* when it is opened.  `io` lists the I/O it did and the exception it      *)
(* caught, if any.                                                         *)
(***************************************************************************)
OnLoadRead(pd, file, err, vanished, io) ==
    IF vanished \/ file.status = "absent"
    THEN [postcode_data |-> pd, cache_file |-> FileAbsent,
          error_message |->
            "Location data is missing. App may not function correctly.",
          io |-> io \o <<"read", "missing">>]
    ELSE IF file.status = "corrupt"
    THEN [postcode_data |-> pd, cache_file |-> file,
          error_message |->
            "Location data is corrupted. Please contact support.",
          io |-> io \o <<"read", "corrupt">>]
    ELSE [postcode_data |-> file.data, cache_file |-> file,
          error_message |-> err, io |-> io \o <<"read">>]

(* Fault: the download is made whenever the index is empty, whether or    *)
(* not the cache file exists.                                              *)
on_load_always_downloads(pd, file, err, remote, vanished) ==
    IF pd # <<>>
    THEN [postcode_data |-> pd, cache_file |-> file, error_message |-> err,
          io |-> <<>>]
    ELSE IF ~remote.ok \/ ProcessRaises(remote.items, <<>>)
    THEN [postcode_data |-> pd, cache_file |-> file,
          error_message |->
            "Could not load location data. Please try again later.",
          io |-> <<"download", "download_failed">>]
    ELSE OnLoadRead(processed_postcodes(remote.items),
                    FileOk(processed_postcodes(remote.items)),
                    err, vanished, <<"download", "write">>)

on_load(pd, file, err, remote, vanished) ==
    IF pd # <<>>
    THEN [postcode_data |-> pd, cache_file |-> file, error_message |-> err,
          io |-> <<>>]
    ELSE IF file.status = "absent"
    THEN IF ~remote.ok \/ ProcessRaises(remote.items, <<>>)
         THEN [postcode_data |-> pd, cache_file |-> file,
               error_message |->
                 "Could not load location data. Please try again later.",
               io |-> <<"download", "download_failed">>]
         ELSE OnLoadRead(processed_postcodes(remote.items),
                         FileOk(processed_postcodes(remote.items)),
                         err, vanished, <<"download", "write">>)
    ELSE OnLoadRead(pd, file, err, vanished, <<>>)

(***************************************************************************)
(* The session state LawnState (state.py:128-145), the cache file, the     *)
(* date, and per calculate_watering task its position, its local           *)
(* weather_data, the request it has sent, the stages it has run, the form  *)
(* values its computation read and the location its own resolve step       *)
(* assigned.  last_load records the latest call of on_load: the I/O it    *)
(* did and the list it built the index from.                               *)
(***************************************************************************)
VARIABLES grass_type, postcode, sprinkler_type, is_loading, error_message,
          location, weather_station_info, calculation_result, show_results,
          postcode_data, cache_file, today, pc, weather_data, request, steps,
          inputs, resolved, last_load

vars == <<grass_type, postcode, sprinkler_type, is_loading, error_message,
          location, weather_station_info, calculation_result, show_results,
          postcode_data, cache_file, today, pc, weather_data, request, steps,
          inputs, resolved, last_load>>

session == <<is_loading, error_message, location, weather_station_info,
             calculation_result, show_results, postcode_data, cache_file>>

form == <<grass_type, postcode, sprinkler_type>>

Tasks == {"t1", "t2"}

(* Fault: the postcode validated by its length alone.                      *)
is_form_valid_length_only(p) == Len(p) = 4

(* is_form_valid, state.py:147-149                                         *)
is_form_valid(p) == Len(p) = 4 /\ \A i \in 1..Len(p) : p[i] \in Digits

Has(t, ev) == \E i \in 1..Len(steps[t]) : steps[t][i] = ev

Log(t, evs) == steps' = [steps EXCEPT ![t] = @ \o evs]

Goto(t, label) == pc' = [pc EXCEPT ![t] = label]

(* Whether the I/O list `io` of a call of on_load has the event `ev`.      *)
Did(io, ev) == \E i \in 1..Len(io) : io[i] = ev

(* The record of the call of on_load that returned r on the download       *)
(* outcome `remote`; all_postcodes_list is the list of state.py:162 when   *)
(* the index was built from it.                                            *)
LoadCall(r, remote) ==
    [io |-> r.io,
     all_postcodes_list |->
        IF Did(r.io, "write") THEN Some(remote.items) ELSE None]

(***************************************************************************)
(* The form's setters (app.py:44, 73, 106) and the page's on_mount         *)
(* (app.py:304).                                                           *)
(***************************************************************************)
set_postcode(p) ==
    /\ postcode' = p
    /\ UNCHANGED <<grass_type, sprinkler_type, session, today, pc,
                   weather_data, request, steps, inputs, resolved,
                   last_load>>

set_grass_type(g) ==
    /\ grass_type' = g
    /\ UNCHANGED <<postcode, sprinkler_type, session, today, pc,
                   weather_data, request, steps, inputs, resolved,
                   last_load>>

set_sprinkler_type(s) ==
    /\ sprinkler_type' = s
    /\ UNCHANGED <<grass_type, postcode, session, today, pc,
                   weather_data, request, steps, inputs, resolved,
                   last_load>>

(* The download outcomes a call of on_load can meet: those of `remotes`    *)
(* when it can reach the request (state.py:154-155).                       *)
Reachable(remotes) ==
    IF postcode_data = <<>> /\ cache_file.status = "absent"
    THEN remotes ELSE {[ok |-> FALSE, items |-> <<>>]}

(* The on_load event for the download outcomes `remotes`.                  *)
OnMountFrom(remotes) ==
    \E remote \in Reachable(remotes), vanished \in BOOLEAN :
        LET r == on_load(postcode_data, cache_file, error_message,
                         remote, vanished)
        IN  /\ postcode_data' = r.postcode_data
            /\ cache_file' = r.cache_file
            /\ error_message' = r.error_message
            /\ last_load' = LoadCall(r, remote)
            /\ UNCHANGED <<form, is_loading, location, weather_station_info,
                           calculation_result, show_results, today, pc,
                           weather_data, request, steps, inputs, resolved>>

OnMount == OnMountFrom(RemoteOutcomes)

(***************************************************************************)
(* calculate_watering (state.py:214-244), one action per block that runs   *)
(* under the state lock (`async with self`).                               *)
(***************************************************************************)

(* Fault: the reset leaves the error message of the previous attempt.      *)
CalculateKeepsError(t) ==
    /\ pc[t] = "idle"
    /\ IF ~is_form_valid(postcode)
       THEN /\ error_message' = "Please enter a valid 4-digit postcode."
            /\ steps' = [steps EXCEPT ![t] = <<"invalid">>]
            /\ UNCHANGED <<is_loading, show_results, pc>>
       ELSE /\ is_loading' = TRUE
            /\ show_results' = FALSE
            /\ steps' = [steps EXCEPT ![t] = <<"start">>]
            /\ Goto(t, "resolve")
            /\ UNCHANGED error_message
    /\ weather_data' = [weather_data EXCEPT ![t] = None]
    /\ request' = [request EXCEPT ![t] = None]
    /\ inputs' = [inputs EXCEPT ![t] = None]
    /\ resolved' = [resolved EXCEPT ![t] = None]
    /\ UNCHANGED <<form, location, weather_station_info, calculation_result,
                   postcode_data, cache_file, today, last_load>>

(* state.py:217-223: validation and the reset of the session.              *)
Calculate(t) ==
    /\ pc[t] = "idle"
    /\ IF ~is_form_valid(postcode)
       THEN /\ error_message' = "Please enter a valid 4-digit postcode."
            /\ steps' = [steps EXCEPT ![t] = <<"invalid">>]
            /\ UNCHANGED <<is_loading, show_results, pc>>
       ELSE /\ is_loading' = TRUE
            /\ error_message' = ""
            /\ show_results' = FALSE
            /\ steps' = [steps EXCEPT ![t] = <<"start">>]
            /\ Goto(t, "resolve")
    /\ weather_data' = [weather_data EXCEPT ![t] = None]
    /\ request' = [request EXCEPT ![t] = None]
    /\ inputs' = [inputs EXCEPT ![t] = None]
    /\ resolved' = [resolved EXCEPT ![t] = None]
    /\ UNCHANGED <<form, location, weather_station_info, calculation_result,
                   postcode_data, cache_file, today, last_load>>

(* Fault: no second test of the index after the load attempt.              *)
NotLoadedNever(pd) == FALSE

(* The test of state.py:251, after the load attempt.                       *)
NotLoaded(pd) == pd = <<>>

(* Fault: the not-found branch leaves the previous location in place.     *)
LookupMissKeepsLocation(t, loaded) ==
    /\ error_message' =
         "Postcode not found. Please enter a valid Australian postcode."
    /\ resolved' = [resolved EXCEPT ![t] = None]
    /\ Log(t, loaded \o <<"lookup", "notfound">>)
    /\ Goto(t, "check_location")
    /\ UNCHANGED <<location, weather_station_info>>

(* The not-found branch of _resolve_location, state.py:263-267.            *)
LookupMiss(t, loaded) ==
    /\ error_message' =
         "Postcode not found. Please enter a valid Australian postcode."
    /\ location' = None
    /\ resolved' = [resolved EXCEPT ![t] = None]
    /\ Log(t, loaded \o <<"lookup", "notfound">>)
    /\ Goto(t, "check_location")
    /\ UNCHANGED weather_station_info

(* _resolve_location, state.py:246-267, with the on_load it awaits.        *)
ResolveLocation(t) ==
    /\ pc[t] = "resolve"
    /\ \E remote \in RemoteOutcomes, vanished \in BOOLEAN :
        LET r == on_load(postcode_data, cache_file, error_message,
                         remote, vanished)
            loaded == IF postcode_data = <<>> THEN <<"load">> \o r.io
                      ELSE <<>>
        IN  /\ postcode_data' = r.postcode_data
            /\ cache_file' = r.cache_file
            /\ last_load' = IF postcode_data = <<>>
                            THEN LoadCall(r, remote) ELSE last_load
            /\ IF NotLoaded(r.postcode_data)
               THEN /\ error_message' =
                         "Location data not loaded. Cannot find postcode."
                    /\ location' = None
                    /\ resolved' = [resolved EXCEPT ![t] = None]
                    /\ Log(t, loaded \o <<"unavailable">>)
                    /\ Goto(t, "check_location")
                    /\ UNCHANGED weather_station_info
               ELSE IF postcode \in DOMAIN r.postcode_data
               THEN LET pc_data == r.postcode_data[postcode]
                    IN  IF FloatRaises(pc_data.latitude)
                           \/ FloatRaises(pc_data.longitude)
                        THEN /\ error_message' = r.error_message
                             /\ resolved' = [resolved EXCEPT ![t] = None]
                             /\ Log(t, loaded \o <<"lookup", "raised">>)
                             /\ Goto(t, "except")
                             /\ UNCHANGED <<location, weather_station_info>>
                        ELSE /\ error_message' = r.error_message
                             /\ location' =
                                  Some([lat |-> pc_data.latitude.v,
                                        lon |-> pc_data.longitude.v,
                                        display_name |->
                                          pc_data.locality \o ", "
                                            \o pc_data.state])
                             /\ resolved' =
                                  [resolved EXCEPT ![t] = location']
                             /\ weather_station_info' =
                                  "Nearest weather station data"
                             /\ Log(t, loaded \o <<"lookup", "found">>)
                             /\ Goto(t, "check_location")
               ELSE LookupMiss(t, loaded)
    /\ UNCHANGED <<form, is_loading, calculation_result, show_results, today,
                   weather_data, request, inputs>>

(* state.py:226-229                                                        *)
CheckLocation(t) ==
    /\ pc[t] = "check_location"
    /\ IF location = None
       THEN is_loading' = FALSE /\ Goto(t, "finally")
       ELSE UNCHANGED is_loading /\ Goto(t, "fetch")
    /\ UNCHANGED <<form, error_message, location, weather_station_info,
                   calculation_result, show_results, postcode_data,
                   cache_file, today, weather_data, request, steps,
                   inputs, resolved, last_load>>

(* _fetch_weather_data, state.py:271-286: the coordinates are read under   *)
(* the lock and the GET is sent.                                           *)
FetchStart(t) ==
    /\ pc[t] = "fetch"
    /\ IF location = None
       THEN /\ Goto(t, "no_payload")
            /\ UNCHANGED <<request, steps>>
       ELSE /\ request' = [request EXCEPT ![t] =
                              Some([latitude |-> location[1].lat,
                                    longitude |-> location[1].lon])]
            /\ Log(t, <<"request">>)
            /\ Goto(t, "await_response")
    /\ UNCHANGED <<form, session, today, weather_data, inputs, resolved,
                   last_load>>

(***************************************************************************)
(* What the weather provider can answer (state.py:286-298): a body that    *)
(* parses, an error status, or a network / parse failure.                  *)
(***************************************************************************)
Dry == Num(0)
SeriesDry == <<Num(2 * Scale), NoneEntry, Dry, Dry, Dry, Dry, Dry, Dry, Dry>>
SeriesWet ==
    <<Num(MaxRainMm * Scale), Dry, Dry, Dry, Dry, Dry, Dry, NoneEntry, Dry>>
SeriesShort == <<Num(2 * Scale), Dry, Dry, Dry, Dry, Dry, Dry, Dry>>
SeriesText == <<Num(2 * Scale), Dry, StrEntry, Dry, Dry, Dry, Dry, Dry, Dry>>

Payloads ==
    {JsonNull, JsonEmpty, JsonList, NoDaily, NullDaily, NoPrecip, Daily(<<>>),
     Daily(SeriesShort), Daily(SeriesDry), Daily(SeriesWet), Daily(SeriesText)}

WeatherOutcomes ==
    {[kind |-> "ok", status |-> 200, body |-> p] : p \in Payloads}
        \cup {[kind |-> "http", status |-> s, body |-> JsonNull] :
                s \in {429, 503}}
        \cup {[kind |-> "net", status |-> 0, body |-> JsonNull]}

(* state.py:286-298: the response arrives; a failure sets the message.     *)
FetchRespond(t) ==
    /\ pc[t] = "await_response"
    /\ \E out \in WeatherOutcomes :
        CASE out.kind = "ok" ->
                /\ weather_data' = [weather_data EXCEPT ![t] = Some(out.body)]
                /\ IF Falsy(out.body)
                   THEN Log(t, <<"empty">>) /\ Goto(t, "no_payload")
                   ELSE Log(t, <<"payload">>) /\ Goto(t, "compute")
                /\ UNCHANGED error_message
          [] out.kind = "http" ->
                /\ error_message' =
                     "Weather service error: " \o ToString(out.status)
                        \o ". Please try again later."
                /\ Log(t, <<"http_error">>)
                /\ Goto(t, "no_payload")
                /\ UNCHANGED weather_data
          [] out.kind = "net" ->
                /\ error_message' =
                     "Could not connect to the weather service. Check your internet connection."
                /\ Log(t, <<"net_error">>)
                /\ Goto(t, "no_payload")
                /\ UNCHANGED weather_data
    /\ UNCHANGED <<form, is_loading, location, weather_station_info,
                   calculation_result, show_results, postcode_data,
                   cache_file, today, request, inputs, resolved, last_load>>

(* state.py:231-234                                                        *)
NoPayload(t) ==
    /\ pc[t] = "no_payload"
    /\ is_loading' = FALSE
    /\ Goto(t, "finally")
    /\ UNCHANGED <<form, error_message, location, weather_station_info,
                   calculation_result, show_results, postcode_data,
                   cache_file, today, weather_data, request, steps,
                   inputs, resolved, last_load>>

(* _perform_calculations, state.py:311-390                                 *)
PerformCalculations(t) ==
    /\ pc[t] = "compute"
    /\ LET payload == weather_data[t][1]
           daily_precip == DailyPrecip(payload)
       IN  IF GetRaises(payload)
           THEN /\ Log(t, <<"compute", "raised">>)
                /\ Goto(t, "except")
                /\ UNCHANGED <<error_message, calculation_result>>
           ELSE IF TooShort(daily_precip)
           THEN /\ error_message' =
                     "Incomplete weather data received. Cannot perform calculation."
                /\ Log(t, <<"compute", "insufficient">>)
                /\ Goto(t, "finally")
                /\ UNCHANGED calculation_result
           ELSE IF SumsRaise(grass_type, today, daily_precip)
           THEN /\ Log(t, <<"compute", "raised">>)
                /\ Goto(t, "except")
                /\ UNCHANGED <<error_message, calculation_result>>
           ELSE /\ calculation_result' =
                     Some(Recommendation(grass_type, sprinkler_type, today,
                                         daily_precip))
                /\ Log(t, <<"compute", "stored">>)
                /\ Goto(t, "finally")
                /\ UNCHANGED error_message
    /\ inputs' = [inputs EXCEPT ![t] =
                      Some([grass_type |-> grass_type,
                            sprinkler_type |-> sprinkler_type,
                            today |-> today])]
    /\ UNCHANGED <<form, is_loading, location, weather_station_info,
                   show_results, postcode_data, cache_file, today,
                   weather_data, request, resolved, last_load>>

(* state.py:236-239                                                        *)
Except(t) ==
    /\ pc[t] = "except"
    /\ error_message' = "An unexpected error occurred: {e}"
    /\ Goto(t, "finally")
    /\ UNCHANGED <<form, is_loading, location, weather_station_info,
                   calculation_result, show_results, postcode_data,
                   cache_file, today, weather_data, request, steps,
                   inputs, resolved, last_load>>

(* Fault: no cleanup block; is_loading is only cleared by the early        *)
(* returns.                                                                *)
FinallyNoCleanup(t) ==
    /\ pc[t] = "finally"
    /\ show_results' =
         IF error_message = "" /\ calculation_result # None
         THEN TRUE ELSE show_results
    /\ Log(t, <<"end">>)
    /\ Goto(t, "idle")
    /\ UNCHANGED <<form, is_loading, error_message, location,
                   weather_station_info, calculation_result, postcode_data,
                   cache_file, today, weather_data, request, inputs,
                   resolved, last_load>>

(* Fault: the cleanup block clears is_loading and never shows the result.  *)
FinallyHidden(t) ==
    /\ pc[t] = "finally"
    /\ is_loading' = FALSE
    /\ Log(t, <<"end">>)
    /\ Goto(t, "idle")
    /\ UNCHANGED <<form, error_message, location, weather_station_info,
                   calculation_result, show_results, postcode_data,
                   cache_file, today, weather_data, request, inputs,
                   resolved, last_load>>

(* state.py:240-244                                                        *)
Finally(t) ==
    /\ pc[t] = "finally"
    /\ is_loading' = FALSE
    /\ show_results' =
         IF error_message = "" /\ calculation_result # None
         THEN TRUE ELSE show_results
    /\ Log(t, <<"end">>)
    /\ Goto(t, "idle")
    /\ UNCHANGED <<form, error_message, location, weather_station_info,
                   calculation_result, postcode_data, cache_file, today,
                   weather_data, request, inputs, resolved, last_load>>

(* The steps of a task once it has started.                                *)
Step(t) ==
    \/ ResolveLocation(t)
    \/ CheckLocation(t)
    \/ FetchStart(t)
    \/ FetchRespond(t)
    \/ NoPayload(t)
    \/ PerformCalculations(t)
    \/ Except(t)
    \/ Finally(t)

(***************************************************************************)
(* Attempts run one at a time: the session of one user who loads the page  *)
(* (while the index is empty: a later on_load changes nothing) and waits   *)
(* for an attempt to end before starting the next; the form can be edited  *)
(* at any time.                                                            *)
(***************************************************************************)
PostcodeChoices == {P3000, P3999, P2000, <<"3", "0", "a", "0">>}
GrassChoices == {"buffalo", "tall_fescue"}
SprinklerChoices == {"Oscillating", "Dripline"}

CachedIndex == processed_postcodes(DatasetAU)

(* No call of on_load yet.                                                 *)
NoLoad == [io |-> <<>>, all_postcodes_list |-> None]

Init ==
    /\ grass_type = "buffalo"
    /\ postcode = <<>>
    /\ sprinkler_type = "Oscillating"
    /\ is_loading = FALSE
    /\ error_message = ""
    /\ location = None
    /\ weather_station_info = ""
    /\ calculation_result = None
    /\ show_results = FALSE
    /\ postcode_data = <<>>
    /\ cache_file \in {FileAbsent, FileCorrupt, FileOk(CachedIndex)}
    /\ today \in {1, 7}
    /\ pc = [t \in Tasks |-> "idle"]
    /\ weather_data = [t \in Tasks |-> None]
    /\ request = [t \in Tasks |-> None]
    /\ steps = [t \in Tasks |-> <<>>]
    /\ inputs = [t \in Tasks |-> None]
    /\ resolved = [t \in Tasks |-> None]
    /\ last_load = NoLoad

Idle == \A t \in Tasks : pc[t] = "idle"

Next ==
    \/ \E p \in PostcodeChoices : set_postcode(p)
    \/ \E g \in GrassChoices : set_grass_type(g)
    \/ \E s \in SprinklerChoices : set_sprinkler_type(s)
    \/ (Idle /\ postcode_data = <<>> /\ OnMount)
    \/ (Idle /\ Calculate("t1"))
    \/ Step("t1")

Spec == Init /\ [][Next]_vars

(***************************************************************************)
(* The same specification with the scheduling of a background task: a      *)
(* started calculate_watering task is run to its end by the event loop.    *)
(***************************************************************************)
FairSpec == Spec /\ WF_vars(Step("t1"))

(***************************************************************************)
(* The decision engine on its own: a task that has resolved Melbourne and  *)
(* received a precipitation list is about to compute, for every grass,     *)
(* sprinkler (one of them not in the table), season and list drawn from    *)
(* the sets below.                                                         *)
(***************************************************************************)
DecideMonths == {1, 4, 7, 10}

DecideSprinklers == SPRINKLER_TYPES \cup {"Pop-up"}

(* Forecast amounts on both sides of the thresholds of 5 and 25 mm.        *)
ForecastChoices ==
    {0, 5 * Scale - 1, 5 * Scale, 25 * Scale - 1, 25 * Scale}

(* A list of `len` entries: h mm on the first day, x on the second, f on   *)
(* the first forecast day, an absent second forecast day and 1 mm on       *)
(* every later day.                                                        *)
Series(len, h, x, f) ==
    [i \in 1..len |->
        IF i = 1 THEN Num(h * Scale)
        ELSE IF i = 2 THEN x
        ELSE IF i = 8 THEN Num(f)
        ELSE IF i = 9 THEN NoneEntry
        ELSE IF i > 9 THEN Num(Scale)
        ELSE Num(0)]

DecideSeries ==
    {Series(len, h, x, f) :
        len \in {9, 14, 15}, h \in 0..MaxRainMm, x \in {NoneEntry, Num(1)},
        f \in ForecastChoices}
      \cup {<<>>, SeriesShort, SeriesText}

MelbourneLocation ==
    [lat |-> -38, lon |-> 145, display_name |-> "Melbourne, VIC"]

InitDecide ==
    /\ grass_type \in GRASS_TYPES
    /\ sprinkler_type \in DecideSprinklers
    /\ today \in DecideMonths
    /\ postcode = P3000
    /\ is_loading = TRUE
    /\ error_message = ""
    /\ location = Some(MelbourneLocation)
    /\ weather_station_info = "Nearest weather station data"
    /\ calculation_result = None
    /\ show_results = FALSE
    /\ postcode_data = CachedIndex
    /\ cache_file = FileOk(CachedIndex)
    /\ pc = [t \in Tasks |-> IF t = "t1" THEN "compute" ELSE "idle"]
    /\ \E series \in DecideSeries :
         weather_data =
            [t \in Tasks |-> IF t = "t1" THEN Some(Daily(series)) ELSE None]
    /\ request =
         [t \in Tasks |->
            IF t = "t1" THEN Some([latitude |-> -38, longitude |-> 145])
            ELSE None]
    /\ steps =
         [t \in Tasks |->
            IF t = "t1" THEN <<"start", "lookup", "found", "request", "payload">>
            ELSE <<>>]
    /\ inputs = [t \in Tasks |-> None]
    /\ resolved = [t \in Tasks |-> None]
    /\ last_load = NoLoad

NextDecide ==
    \/ PerformCalculations("t1")
    \/ Except("t1")
    \/ Finally("t1")

SpecDecide == InitDecide /\ [][NextDecide]_vars

(***************************************************************************)
(* The index loader on its own: on_load called again and again in a        *)
(* session that starts with an empty index, for a download that fails or   *)
(* returns any list of at most MaxItems of the items below: a postcode on  *)
(* a state border, WA items south and north of latitude -20, with a        *)
(* precise latitude on the other side of it, without latitude, and items   *)
(* without postcode, with a null latitude and without locality.            *)
(***************************************************************************)
IndexItems ==
    {Item(P3644, "VIC", Num(-36), Absent, Num(145), Absent, Some("Cobram")),
     Item(P3644, "NSW", Num(-35), Absent, Num(146), Absent, Some("Barooga")),
     Item(P0872, "WA", Num(-25), Absent, Num(128), Absent, Some("Warburton")),
     Item(P0872, "WA", Num(-15), Absent, Num(128), Absent, Some("Kununurra")),
     Item(P0872, "WA", Num(-21), Num(-19), Num(128), Absent,
          Some("Kiwirrkurra")),
     Item(P0872, "WA", Absent, Num(-25), Absent, Num(128), Some("Warburton")),
     Item(P0872, "NT", Num(-25), Absent, Num(131), Absent, Some("Yulara")),
     Item(<<>>, "VIC", Num(-37), Absent, Num(144), Absent, Some("Nowhere")),
     Item(P0872, "WA", NoneEntry, Absent, Num(128), Absent,
          Some("Wingellina")),
     Item(P3644, "VIC", Num(-36), Absent, Num(145), Absent, None)}

IndexDatasets == UNION {[1..n -> IndexItems] : n \in 0..MaxItems}

LoadOutcomes ==
    {[ok |-> FALSE, items |-> <<>>]}
        \cup {[ok |-> TRUE, items |-> d] : d \in IndexDatasets}

NextLoad == OnMountFrom(LoadOutcomes)

InitLoad == Init /\ today = 7

SpecLoad == InitLoad /\ [][NextLoad]_vars

(***************************************************************************)
(* Two calculate_watering tasks in one session: the handler has no test    *)
(* of is_loading, so a second click (or one sent before the disabled       *)
(* button reached the page) starts a second background task while the      *)
(* first is between two of its locked blocks.  The index is loaded and     *)
(* the postcode can be edited between the clicks.                          *)
(***************************************************************************)
ConcPostcodes == {P3000, P0800, P2000}

InitConc ==
    /\ grass_type = "tall_fescue"
    /\ postcode = P3000
    /\ sprinkler_type = "Oscillating"
    /\ is_loading = FALSE
    /\ error_message = ""
    /\ location = None
    /\ weather_station_info = ""
    /\ calculation_result = None
    /\ show_results = FALSE
    /\ postcode_data = CachedIndex
    /\ cache_file = FileOk(CachedIndex)
    /\ today = 7
    /\ pc = [t \in Tasks |-> "idle"]
    /\ weather_data = [t \in Tasks |-> None]
    /\ request = [t \in Tasks |-> None]
    /\ steps = [t \in Tasks |-> <<>>]
    /\ inputs = [t \in Tasks |-> None]
    /\ resolved = [t \in Tasks |-> None]
    /\ last_load = NoLoad

NextConc ==
    \/ \E p \in ConcPostcodes : set_postcode(p)
    \/ \E t \in Tasks : Calculate(t)
    \/ \E t \in Tasks : Step(t)

SpecConc == InitConc /\ [][NextConc]_vars

(***************************************************************************)
(* Properties.                                                             *)
(***************************************************************************)
Before(t, a, b) ==
    \E i, j \in 1..Len(steps[t]) :
        i < j /\ steps[t][i] = a /\ steps[t][j] = b

Ended(t) == pc[t] = "idle" /\ Has(t, "end")

GenericError == "An unexpected error occurred: {e}"
IncompleteError ==
    "Incomplete weather data received. Cannot perform calculation."
ValidationError == "Please enter a valid 4-digit postcode."

(* C1: an attempt that passed validation (and set is_loading) eventually   *)
(* ends with is_loading = FALSE, whatever stage it stopped at; when a      *)
(* stage raised, the generic error message is set.                         *)
C1_LoadingCleared ==
    (pc["t1"] = "resolve" /\ is_loading)
        ~> (/\ Ended("t1")
            /\ ~is_loading
            /\ (Has("t1", "raised") => error_message = GenericError))

C1_Witness ==
    /\ Ended("t1")
    /\ Has("t1", "raised")
    /\ ~is_loading
    /\ error_message = GenericError

(* C2: every attempt that failed (validation, index load, postcode not     *)
(* found, weather fetch, insufficient data, exception) has left            *)
(* is_loading = FALSE, a non-empty error_message and show_results = FALSE. *)
Failed(t) ==
    \/ Has(t, "invalid")
    \/ Has(t, "unavailable")
    \/ Has(t, "notfound")
    \/ Has(t, "http_error")
    \/ Has(t, "net_error")
    \/ Has(t, "empty")
    \/ Has(t, "insufficient")
    \/ Has(t, "raised")

C2_FailureLeavesCleanError ==
    (pc["t1"] = "idle" /\ Failed("t1"))
        => (~is_loading /\ error_message # "" /\ ~show_results)

(* C3: an attempt whose postcode is not in the index has the not-found     *)
(* error and no location, and sends no weather request and computes        *)
(* nothing; a request is only sent after a successful resolve and a        *)
(* computation only runs after a payload was returned.                     *)
C3_NoFetchWithoutResolve ==
    /\ Has("t1", "notfound") =>
          /\ error_message # ""
          /\ location = None
          /\ request["t1"] = None
          /\ ~Has("t1", "request")
          /\ ~Has("t1", "compute")
    /\ Has("t1", "request") => Before("t1", "found", "request")
    /\ request["t1"] # None => Has("t1", "found")
    /\ Has("t1", "compute") =>
          (Before("t1", "request", "payload")
             /\ Before("t1", "payload", "compute"))

C3_Witness ==
    /\ Ended("t1")
    /\ Has("t1", "notfound")
    /\ calculation_result # None

(* The inputs of the computation of task t1, as it read them.              *)
SeriesOf(t) == DailyPrecip(weather_data[t][1])
Stored(t) == Has(t, "stored") /\ calculation_result # None

(* C4: whenever the forecast is at least 25 mm, or the target is positive  *)
(* and the observed rainfall reaches it, the stored result is "Heavy Rain  *)
(* - Skip" with 0 minutes, whatever the deficit.                           *)
C4_HeavyRainFirst ==
    Stored("t1") =>
        LET in == inputs["t1"][1]
            target == TargetMm(in.grass_type, get_season(in.today))
            observed == SumPresent(Slice(SeriesOf("t1"), 0, 7))
            forecast == SumPresent(Slice(SeriesOf("t1"), 7, 9))
        IN  (forecast >= 25 * Scale \/ (target > 0 /\ observed >= target))
              => /\ calculation_result[1].status_text = "Heavy Rain - Skip"
                 /\ calculation_result[1].watering_minutes = 0

C4_Witness ==
    /\ Stored("t1")
    /\ SumPresent(Slice(SeriesOf("t1"), 7, 9)) >= 25 * Scale
    /\ DeficitMm(grass_type, get_season(today), SeriesOf("t1")) = 20 * Scale
    /\ calculation_result[1].status_text = "Heavy Rain - Skip"

(* C5: the watering_minutes of every stored result is a non-negative       *)
(* multiple of 5, in every branch.                                         *)
C5_MinutesMultipleOfFive ==
    calculation_result # None =>
        /\ calculation_result[1].watering_minutes >= 0
        /\ calculation_result[1].watering_minutes % 5 = 0

C5_Witness ==
    /\ Stored("t1")
    /\ calculation_result[1].status_text = "Light Rain - Monitor"
    /\ calculation_result[1].watering_minutes = 10
    /\ RawMinutes(DeficitMm(grass_type, get_season(today), SeriesOf("t1")),
                  sprinkler_type) = 15

(* C6: a precipitation list that is absent, empty or shorter than 9       *)
(* entries makes the computation set the incomplete-data message and       *)
(* leave calculation_result as it was, and the attempt ends with           *)
(* show_results = FALSE.                                                   *)
ShortList(t) ==
    /\ weather_data[t] # None
    /\ ~GetRaises(weather_data[t][1])
    /\ Len(SeriesOf(t)) < 9

CleanRun(t) ==
    /\ Ended(t)
    /\ Has(t, "found")
    /\ Has(t, "payload")
    /\ ~Has(t, "raised")
    /\ ~Has(t, "missing")
    /\ Len(SeriesOf(t)) >= 9

C7_SuccessShowsResult ==
    CleanRun("t1") =>
        /\ ~is_loading
        /\ error_message = ""
        /\ show_results
        /\ inputs["t1"] # None
        /\ calculation_result =
             Some(Recommendation(inputs["t1"][1].grass_type,
                                 inputs["t1"][1].sprinkler_type,
                                 inputs["t1"][1].today, SeriesOf("t1")))

C7_Witness ==
    /\ CleanRun("t1")
    /\ show_results
    /\ calculation_result # None
    /\ calculation_result[1].status_text = "Dry - Water Needed"

(* C8: calculate_watering on a postcode that is not exactly 4 digits sets  *)
(* the validation message and does nothing else: no load, resolve,         *)
(* request or computation, and is_loading is not set.                      *)
FourDigits(p) == p \in [1..4 -> Digits]

C8_InvalidPostcodeStops ==
    /\ [][(pc["t1"] = "idle" /\ steps'["t1"] # steps["t1"]
             /\ ~FourDigits(postcode))
            => /\ error_message' = ValidationError
               /\ steps'["t1"] = <<"invalid">>
               /\ pc' = pc
               /\ request'["t1"] = None
               /\ UNCHANGED <<is_loading, show_results, location,
                              calculation_result, postcode_data,
                              cache_file>>]_vars
    /\ [](Has("t1", "invalid") => (pc["t1"] = "idle" /\ ~is_loading))

C8_Witness ==
    /\ Has("t1", "invalid")
    /\ postcode = <<"3", "0", "a", "0">>
    /\ error_message = ValidationError
    /\ ~is_loading

(* C9: an attempt whose weather fetch gave no usable payload ends with     *)
(* is_loading = FALSE, a non-empty error message and no computation.       *)
C9_NoPayloadSetsError ==
    (Ended("t1") /\ Has("t1", "request") /\ ~Has("t1", "payload"))
        => /\ ~is_loading
           /\ error_message # ""
           /\ ~Has("t1", "compute")
           /\ inputs["t1"] = None

(* C10: a resolve that starts on an empty index attempts the load before   *)
(* any lookup; when the index is still empty the attempt reports           *)
(* data-unavailable and neither looks up, requests nor computes; when the  *)
(* load filled the index the lookup follows in the same attempt.           *)
C10_LoadBeforeLookup ==
    /\ Has("t1", "load") =>
          /\ Has("t1", "download") \/ Has("t1", "read")
          /\ Has("t1", "lookup") => Before("t1", "load", "lookup")
          /\ Has("t1", "lookup") \/ Has("t1", "unavailable")
    /\ Has("t1", "unavailable") =>
          /\ Has("t1", "load")
          /\ ~Has("t1", "lookup")
          /\ ~Has("t1", "request")
          /\ ~Has("t1", "compute")
          /\ request["t1"] = None
          /\ location = None
          /\ error_message # ""
    /\ Has("t1", "lookup") => postcode_data # <<>>

C10_Witness ==
    /\ Ended("t1")
    /\ Has("t1", "download")
    /\ Has("t1", "unavailable")
    /\ postcode_data = <<>>

C10_WitnessLoaded ==
    /\ Ended("t1")
    /\ Before("t1", "download", "lookup")
    /\ postcode_data # <<>>

(* An index load failure caught by on_load: the download or the build      *)
(* failed, the cache file does not parse, or it was gone when opened.      *)
LoadFailure(io) ==
    Did(io, "download_failed") \/ Did(io, "corrupt") \/ Did(io, "missing")

(* C11: each index load failure (failed download, corrupt cache file,      *)
(* cache file missing when read) is caught, leaves postcode_data empty,    *)
(* and the resolve that follows it stops with a non-empty error_message    *)
(* and location = None, without raising.                                   *)
C11_LoadFailureLeavesIndexEmpty ==
    /\ LoadFailure(last_load.io) => postcode_data = <<>>
    /\ (pc["t1"] \in {"check_location", "except"}
          /\ LoadFailure(steps["t1"]))
         => /\ pc["t1"] = "check_location"
            /\ Has("t1", "unavailable")
            /\ ~Has("t1", "lookup")
            /\ error_message # ""
            /\ location = None

(* The index that the latest call of on_load built from the list it        *)
(* downloaded.                                                             *)
Built == Did(last_load.io, "write")

FirstOccurrence(d, p) ==
    CHOOSE i \in 1..Len(d) :
        d[i].postcode = p /\ \A j \in 1..(i - 1) : d[j].postcode # p

(* C12: the index built from a dataset has only postcodes of the dataset,  *)
(* one record each; the record of a postcode is made from the first item   *)
(* of the dataset with that postcode; and every record has state VIC or    *)
(* NT, or WA with a latitude below -20.                                    *)
C12_FirstOccurrenceInRegion ==
    Built =>
        LET d == last_load.all_postcodes_list[1]
        IN  \A p \in DOMAIN postcode_data :
                LET rec == postcode_data[p]
                IN  /\ \E i \in 1..Len(d) : d[i].postcode = p
                    /\ rec.state = d[FirstOccurrence(d, p)].state
                    /\ rec.locality = d[FirstOccurrence(d, p)].locality[1]
                    /\ \/ rec.state = "VIC"
                       \/ rec.state = "NT"
                       \/ /\ rec.state = "WA"
                          /\ rec.latitude.k = "num"
                          /\ rec.latitude.v < -20

(* C13: on_load on a non-empty index changes nothing and does no I/O; it   *)
(* downloads only when the index is empty and there is no cache file; a    *)
(* download that was written leaves the cache file in place with the       *)
(* index, no call removes the file, and a call on an empty index with the  *)
(* file in place reads it and downloads nothing.                           *)
C13_LoadIdempotentAndCached ==
    [][LET io == last_load'.io
       IN  /\ postcode_data # <<>> =>
                (io = <<>> /\ UNCHANGED <<form, session>>)
           /\ Did(io, "download") =>
                (postcode_data = <<>> /\ cache_file.status = "absent")
           /\ (Did(io, "write") /\ ~Did(io, "missing")) =>
                (cache_file' = FileOk(postcode_data'))
           /\ (cache_file.status # "absent" /\ ~Did(io, "missing")) =>
                cache_file' = cache_file
           /\ (postcode_data = <<>> /\ cache_file.status # "absent") =>
                (io[1] = "read" /\ ~Did(io, "download"))
           /\ (postcode_data = <<>> /\ cache_file.status = "ok"
                 /\ ~Did(io, "missing")) =>
                (io = <<"read">> /\ postcode_data' = cache_file.data)
      ]_vars

C13_Witness ==
    /\ last_load.io = <<>>
    /\ postcode_data # <<>>
    /\ cache_file = FileOk(postcode_data)
    /\ postcode_data # CachedIndex

(* The value of entry i (1-based) of a list, an absent or null entry       *)
(* counted as 0, and the rain of the first seven and the two next days.    *)
Val(s, i) == IF i <= Len(s) /\ s[i].k = "num" THEN s[i].v ELSE 0
Observed(s) ==
    Val(s, 1) + Val(s, 2) + Val(s, 3) + Val(s, 4) + Val(s, 5) + Val(s, 6)
        + Val(s, 7)
Forecast(s) == Val(s, 8) + Val(s, 9)
TargetOf(t) ==
    GRASS_TARGETS[inputs[t][1].grass_type][get_season(inputs[t][1].today)]
        * Scale
WinterException(t) ==
    /\ inputs[t][1].grass_type
          \in {"buffalo", "kikuyu", "zoysia", "seashore_paspalum"}
    /\ inputs[t][1].today \in {6, 7, 8}

(* Amounts of a stored result are in tenths of a millimetre.               *)
Tenths(mm) == 10 * mm

(* C14: for buffalo, kikuyu, zoysia and seashore_paspalum in winter the    *)
(* deficit is 5.0 or 0.0 whatever the target: with 9 to 13 entries 5.0     *)
(* exactly when the first seven sum to less than 5; with 14 or more        *)
(* entries 5.0 exactly when the last 14 entries sum to less than 10.       *)
C14_WinterExceptionDeficit ==
    (Stored("t1") /\ WinterException("t1")) =>
        LET s == SeriesOf("t1")
            trailing == SumPresent(Slice(s, Len(s) - 14, Len(s)))
        IN  calculation_result[1].deficit_mm =
                IF Len(s) >= 14
                THEN (IF trailing < 10 * Scale THEN Tenths(5) ELSE 0)
                ELSE (IF Observed(s) < 5 * Scale THEN Tenths(5) ELSE 0)

NearTarget(t) ==
    /\ TargetOf(t) > 0
    /\ Observed(SeriesOf(t)) < TargetOf(t)
    /\ TargetOf(t) - Observed(SeriesOf(t)) <= 3 * Scale

(* C15 as claimed: whatever the forecast, a positive target that the       *)
(* observed rain misses by at most 3 mm gives "Light Rain - Monitor".      *)
C15_NearTargetIsLightRain ==
    (Stored("t1") /\ NearTarget("t1")) =>
        calculation_result[1].status_text = "Light Rain - Monitor"

(* C15, amended: with a forecast below 25 mm, a positive target that the   *)
(* observed rain misses by at most 3 mm gives "Light Rain - Monitor",      *)
(* whatever the deficit; from 25 mm on the result is "Heavy Rain - Skip".  *)
C15_NearTargetBelowHeavyForecast ==
    (Stored("t1") /\ NearTarget("t1")) =>
        calculation_result[1].status_text =
            IF Forecast(SeriesOf("t1")) < 25 * Scale
            THEN "Light Rain - Monitor" ELSE "Heavy Rain - Skip"

C15_Witness ==
    /\ Stored("t1")
    /\ TargetOf("t1") = 20 * Scale
    /\ Observed(SeriesOf("t1")) = 19 * Scale
    /\ Forecast(SeriesOf("t1")) = 0
    /\ calculation_result[1].status_text = "Light Rain - Monitor"

SplitCount(recommendation) ==
    Cardinality({i \in 1..Len(recommendation) :
                    recommendation[i] = SplitSuggestion})

(* C16: a stored recommendation has the splitting suggestion exactly once  *)
(* when its watering_minutes exceed 45 and not at all otherwise.           *)
C16_SplitSuggestion ==
    calculation_result # None =>
        SplitCount(calculation_result[1].recommendation) =
            IF calculation_result[1].watering_minutes > 45 THEN 1 ELSE 0

C16_Witness ==
    /\ Stored("t1")
    /\ calculation_result[1].watering_minutes = 50
    /\ SplitCount(calculation_result[1].recommendation) = 1
    /\ Len(calculation_result[1].recommendation) = 2

Max0(x) == IF x > 0 THEN x ELSE 0

(* C19: outside the winter-exception branch the deficit is the target      *)
(* less the rain of the first seven entries (absent ones as 0), floored    *)
(* at 0: never negative, and 0 when the target is 0 (the stored amounts    *)
(* are rounded to a tenth).                                                *)
C19_GeneralDeficit ==
    (Stored("t1") /\ ~WinterException("t1")) =>
        LET r == calculation_result[1]
            observed == Observed(SeriesOf("t1"))
        IN  /\ r.observed_mm = Round1(observed)
            /\ r.deficit_mm = Round1(Max0(TargetOf("t1") - observed))
            /\ r.deficit_mm >= 0
            /\ TargetOf("t1") = 0 => r.deficit_mm = 0

C19_Witness ==
    /\ Stored("t1")
    /\ inputs["t1"][1].grass_type = "fine_fescue"
    /\ inputs["t1"][1].today = 7
    /\ Observed(SeriesOf("t1")) = 2 * Scale
    /\ calculation_result[1].deficit_mm = Tenths(8)

(* The status the rules a to e give, first match first, for amounts in     *)
(* 1/Scale mm.                                                             *)
FirstMatch(target, observed, deficit, forecast) ==
    IF forecast >= 25 * Scale \/ (target > 0 /\ observed >= target)
    THEN "Heavy Rain - Skip"
    ELSE IF \/ (forecast >= 5 * Scale /\ forecast < 25 * Scale)
            \/ /\ target > 0
               /\ target - observed <= 3 * Scale
               /\ observed - target <= 3 * Scale
    THEN "Light Rain - Monitor"
    ELSE IF deficit > 15 * Scale /\ forecast < 5 * Scale
    THEN "Very Dry - Deep Water"
    ELSE IF deficit > 0 THEN "Dry - Water Needed"
    ELSE "All Good"

(* C20: the status of a stored result is the first matching rule of a to   *)
(* e for its target, observed rain, deficit and forecast; "All Good" has   *)
(* 0 minutes, and the message of the two dry statuses names the stored     *)
(* watering_minutes.                                                       *)
C20_FirstMatchingRule ==
    Stored("t1") =>
        LET r == calculation_result[1]
            s == SeriesOf("t1")
            deficit == DeficitMm(inputs["t1"][1].grass_type,
                                 get_season(inputs["t1"][1].today), s)
        IN  /\ r.status_text =
                  FirstMatch(TargetOf("t1"), Observed(s), deficit, Forecast(s))
            /\ r.status_text = "All Good" => r.watering_minutes = 0
            /\ r.status_text = "Very Dry - Deep Water" =>
                  r.recommendation[1] =
                     "A deep watering is needed. Water for "
                        \o ToString(r.watering_minutes) \o " minutes."
            /\ r.status_text = "Dry - Water Needed" =>
                  r.recommendation[1] =
                     "Your lawn is thirsty. Water for "
                        \o ToString(r.watering_minutes) \o " minutes."

C20_Witness ==
    /\ Stored("t1")
    /\ inputs["t1"][1].grass_type = "tall_fescue"
    /\ inputs["t1"][1].today = 7
    /\ inputs["t1"][1].sprinkler_type = "Oscillating"
    /\ Observed(SeriesOf("t1")) = 2 * Scale
    /\ Forecast(SeriesOf("t1")) = 0
    /\ calculation_result[1].deficit_mm = Tenths(8)
    /\ calculation_result[1].status_text = "Dry - Water Needed"
    /\ calculation_result[1].watering_minutes = 15

(* C17: with two attempts in flight, the coordinates of the weather        *)
(* request of an attempt are those of the location its own resolve step    *)
(* assigned, and an attempt whose own resolve failed sends no request.     *)
C17_OwnCoordinates ==
    \A t \in Tasks :
        request[t] # None =>
            /\ resolved[t] # None
            /\ request[t][1].latitude = resolved[t][1].lat
            /\ request[t][1].longitude = resolved[t][1].lon

(* A stage of the running attempt of task t has set the error message.     *)
OwnError(t) ==
    \/ LoadFailure(steps[t])
    \/ Has(t, "unavailable")
    \/ Has(t, "notfound")
    \/ Has(t, "http_error")
    \/ Has(t, "net_error")
    \/ Has(t, "insufficient")
    \/ (Has(t, "raised") /\ pc[t] = "finally")

(* C18: an attempt on a valid postcode starts with one step that sets      *)
(* is_loading, clears error_message and hides the results, before any      *)
(* load, resolve or request; while the attempt runs the results stay       *)
(* hidden and any error message is one its own stages have set.            *)
C18_ResetBeforeStages ==
    /\ [][(pc["t1"] = "idle" /\ pc'["t1"] # "idle")
            => /\ is_loading'
               /\ error_message' = ""
               /\ ~show_results'
               /\ pc'["t1"] = "resolve"
               /\ steps'["t1"] = <<"start">>
               /\ request'["t1"] = None
               /\ UNCHANGED <<location, postcode_data, cache_file,
                              calculation_result, last_load>>]_vars
    /\ [](pc["t1"] # "idle" => ~show_results)
    /\ []((pc["t1"] # "idle" /\ error_message # "") => OwnError("t1"))
    /\ [](pc["t1"] = "resolve" => (is_loading /\ error_message = ""))

C18_Witness ==
    /\ pc["t1"] = "resolve"
    /\ steps["t1"] = <<"start">>
    /\ calculation_result # None
    /\ location = None
    /\ is_loading
    /\ error_message = ""
    /\ ~show_results

(* The rate of the sprinkler the computation of task t read, and its raw   *)
(* minutes deficit x rate / 10 as the numerator of a fraction over         *)
(* 10 * Scale.                                                             *)
RateOf(t) ==
    LET sprinkler == inputs[t][1].sprinkler_type
    IN  CASE sprinkler \in {"Oscillating", "Fixed/Dome"} -> 20
          [] sprinkler = "Rotary/Gear-drive" -> 30
          [] sprinkler = "Impact" -> 25
          [] sprinkler = "Dripline" -> 40
          [] OTHER -> 20
RawOf(t) ==
    DeficitMm(inputs[t][1].grass_type, get_season(inputs[t][1].today),
              SeriesOf(t)) * RateOf(t)

Abs(x) == IF x < 0 THEN -x ELSE x

(* m is the multiple of 5 nearest to num / den, the even multiple on a     *)
(* tie.                                                                    *)
NearestFive(m, num, den) ==
    /\ m % 5 = 0
    /\ 2 * Abs(m * den - num) <= 5 * den
    /\ 2 * Abs(m * den - num) = 5 * den => (m \div 5) % 2 = 0

DryStatus(t) ==
    calculation_result[1].status_text
        \in {"Dry - Water Needed", "Very Dry - Deep Water"}

(* C21: the minutes computed before the classification, which the two dry  *)
(* statuses store unchanged, are the multiple of 5 nearest to              *)
(* deficit x rate / 10 (rate 20 for an unknown sprinkler), an exact tie    *)
(* going to the even multiple.                                             *)
C21_RawMinutesHalfEven ==
    (Stored("t1") /\ DryStatus("t1")) =>
        NearestFive(calculation_result[1].watering_minutes,
                    RawOf("t1"), 10 * Scale)

C21_Witness ==
    /\ Stored("t1")
    /\ DryStatus("t1")
    /\ RawOf("t1") * 2 = 25 * (10 * Scale)
    /\ calculation_result[1].watering_minutes = 10

C21_WitnessUp ==
    /\ Stored("t1")
    /\ DryStatus("t1")
    /\ RawOf("t1") * 2 = 75 * (10 * Scale)
    /\ calculation_result[1].watering_minutes = 40

(* The minutes before the classification.                                  *)
MinutesBefore(t) ==
    CHOOSE m \in {5 * k : k \in 0..60} : NearestFive(m, RawOf(t), 10 * Scale)

(* C22: in "Light Rain - Monitor" the stored minutes are the minutes       *)
(* computed before the classification, halved and rounded to the nearest   *)
(* multiple of 5 with ties to the even one, and never more than them.      *)
C22_LightRainHalves ==
    (Stored("t1")
       /\ calculation_result[1].status_text = "Light Rain - Monitor") =>
        /\ NearestFive(calculation_result[1].watering_minutes,
                       MinutesBefore("t1"), 2)
        /\ calculation_result[1].watering_minutes <= MinutesBefore("t1")

C22_Witness ==
    /\ Stored("t1")
    /\ calculation_result[1].status_text = "Light Rain - Monitor"
    /\ MinutesBefore("t1") = 25
    /\ calculation_result[1].watering_minutes = 10

(* C25: a stored result with one of the two dry statuses has at least 5    *)
(* watering minutes.                                                       *)
C25_DryHasMinutes ==
    (Stored("t1") /\ DryStatus("t1")) =>
        calculation_result[1].watering_minutes >= 5

C25_Witness ==
    /\ Stored("t1")
    /\ calculation_result[1].status_text = "Dry - Water Needed"
    /\ calculation_result[1].watering_minutes = 5
    /\ 2 * RawOf("t1") = 7 * (10 * Scale) * 2

(* The result the computation of task t produces from the settings it      *)
(* read and the payload it was given.                                      *)
OwnResult(t) ==
    Recommendation(inputs[t][1].grass_type, inputs[t][1].sprinkler_type,
                   inputs[t][1].today, SeriesOf(t))

(* C23: attempts made one after the other: when an attempt ends with the   *)
(* results shown, the result on display is the one that attempt computed   *)
(* and stored; an attempt that stored none does not bring an earlier       *)
(* result back.                                                            *)
C23_ShownResultIsOwn ==
    (Ended("t1") /\ show_results) =>
        /\ Has("t1", "stored")
        /\ calculation_result = Some(OwnResult("t1"))

(* Task t still has a stage to run before its finally block.               *)
Working(t) == pc[t] \notin {"idle", "finally"}

(* C24: with two overlapping attempts, as long as one of them still has a  *)
(* stage to run is_loading is true and the results are hidden.             *)
C24_LoadingUntilLastEnds ==
    (\E t \in Tasks : Working(t)) => (is_loading /\ ~show_results)

====
